---- MODULE Spec2Model ----
(***************************************************************************)
(* Model of the OLED pixel shifter (src/src/main.rs): the GTK handlers of  *)
(* the Test / Start / Stop buttons, the repeating shift timer, the         *)
(* deferred reset of a test shift, the reset protocol and the shift        *)
(* strategies.  The GTK main loop is single threaded and every xrandr      *)
(* invocation is blocking (Command::output), so each handler and each      *)
(* timer callback is one atomic action.  The outcome of every xrandr       *)
(* invocation is chosen by the environment.                                *)
(*                                                                         *)
(* Option<T> is modelled as a sequence of length 0 (None) or 1 (Some).     *)
(* Status glyphs of the source strings are written "[ok]" and "[x]".       *)
(***************************************************************************)
EXTENDS Integers, Sequences, FiniteSets, TLC

(* ------------------------------ bounds --------------------------------- *)
\* number of connected displays the enumeration can return
MaxDisplays == 2
\* the shift amounts explored are the smallest of the spin button and this one
MaxShift == 2
\* largest number of deferred test resets pending at the same time
MaxPending == 1
\* the entries of the method combo box explored are the first (the default)
\* and this one (the box has 4 entries, 0..3)
MaxMethod == 1
\* largest number of next() and reset() calls made on one ShiftPattern
MaxPatternCalls == 10
\* largest offset, in either direction, handed to a shift strategy on its own
MaxOffset == 3
\* largest number of lines in a report of xrandr --query
MaxLines == 3

(* --------------------------- program constants ------------------------- *)
\* SpinButton::with_range(1.0, 10.0, 1.0)
MinShift == 1
\* SpinButton::with_range(1.0, 10.0, 1.0)
SpinMaxShift == 10
\* values of the interval spin button that are explored (range 5..300)
Intervals == {30}
\* interval_spin.value_as_int().max(5)
IntervalFloor == 5
\* panning margin of the smooth panning strategy
PanMargin == 10

None == <<>>
Some(v) == <<v>>
IsSome(o) == Len(o) = 1
Unwrap(o) == o[1]

\* outcome of Command::output(): Ok with success status, Ok with failure
\* status, or Err (the process could not be launched)
Outcomes == {"ok", "nonzero", "launch_err"}
StdErr == "xrandr: command failed"
IoErr == "No such file or directory (os error 2)"

\* what get_connected_displays() can return: the first n of these
AllDisplays ==
    << [name |-> "eDP-1",  width |-> 1366, height |-> 768,  is_primary |-> TRUE],
       [name |-> "HDMI-1", width |-> 2560, height |-> 1440, is_primary |-> FALSE],
       [name |-> "DP-1",   width |-> 3840, height |-> 2160, is_primary |-> FALSE],
       [name |-> "DP-2",   width |-> 1366, height |-> 768,  is_primary |-> FALSE] >>

Max2(a, b) == IF a >= b THEN a ELSE b

(* ----------------------------- formatting ------------------------------ *)
Digit(d) == <<"0", "1", "2", "3", "4", "5", "6", "7", "8", "9">>[d + 1]

RECURSIVE FmtNat(_)
FmtNat(n) == IF n < 10 THEN Digit(n) ELSE FmtNat(n \div 10) \o Digit(n % 10)

\* format!("{}", i32)
FmtInt(n) == IF n < 0 THEN "-" \o FmtNat(0 - n) ELSE FmtNat(n)

\* format!("{:+}", i32)
FmtIntPlus(n) == IF n < 0 THEN "-" \o FmtNat(0 - n) ELSE "+" \o FmtNat(n)

RECURSIVE PadLeft(_, _)
PadLeft(s, w) == IF Len(s) >= w THEN s ELSE PadLeft("0" \o s, w)

\* num / den rounded to the nearest integer, ties to even (num, den >= 0)
RoundDiv(num, den) ==
    LET q == num \div den
        r == num % den
    IN  IF 2 * r > den THEN q + 1
        ELSE IF 2 * r < den THEN q
        ELSE IF q % 2 = 0 THEN q ELSE q + 1

\* mutant: whole ratios are printed without a fractional part
FmtFixed6_bare_integers(num, den) ==
    LET mag == IF num < 0 THEN 0 - num ELSE num
        scaled == RoundDiv(mag * 1000000, den)
        body == IF scaled % 1000000 = 0
                THEN FmtNat(scaled \div 1000000)
                ELSE FmtNat(scaled \div 1000000) \o "." \o PadLeft(FmtNat(scaled % 1000000), 6)
    IN  IF num < 0 THEN "-" \o body ELSE body

\* format!("{:.6}", num as f64 / den as f64): sign, integer part, 6 decimals
FmtFixed6(num, den) ==
    LET mag == IF num < 0 THEN 0 - num ELSE num
        scaled == RoundDiv(mag * 1000000, den)
        body == FmtNat(scaled \div 1000000) \o "." \o PadLeft(FmtNat(scaled % 1000000), 6)
    IN  IF num < 0 THEN "-" \o body ELSE body

(* --------------------------- external tool ----------------------------- *)
\* one blocking Command::new("xrandr").args(args).output() and its outcome
Run(args, outcome) == [args |-> args, result |-> outcome]

\* text of the error branch of a shift strategy
FailText(what, outcome) ==
    IF outcome = "nonzero" THEN "[x] " \o what \o " failed: " \o StdErr
    ELSE "[x] Command failed: " \o IoErr

(* --------------------------- shift strategies -------------------------- *)
apply_pixel_shift_panning(display, x_offset, y_offset, outcome) ==
    LET panning_spec == FmtNat(display.width) \o "x" \o FmtNat(display.height)
                          \o "+" \o FmtInt(x_offset) \o "+" \o FmtInt(y_offset)
    IN  [calls |-> << Run(<<"--output", display.name, "--panning", panning_spec>>, outcome) >>,
         msgs  |-> << "Applying panning: xrandr --output " \o display.name
                         \o " --panning " \o panning_spec,
                      IF outcome = "ok"
                      THEN "[ok] Panning applied: +" \o FmtInt(x_offset) \o "+" \o FmtInt(y_offset)
                      ELSE FailText("Panning", outcome) >>,
         ret   |-> outcome = "ok"]

apply_pixel_shift_position(display, x_offset, y_offset, outcome) ==
    LET pos_str == IF x_offset >= 0 /\ y_offset >= 0
                   THEN FmtInt(x_offset) \o "+" \o FmtInt(y_offset)
                   ELSE IF x_offset < 0 /\ y_offset >= 0
                   THEN FmtIntPlus(x_offset) \o "+" \o FmtInt(y_offset)
                   ELSE IF x_offset >= 0 /\ y_offset < 0
                   THEN FmtInt(x_offset) \o "+" \o FmtIntPlus(y_offset)
                   ELSE FmtIntPlus(x_offset) \o FmtIntPlus(y_offset)
    IN  [calls |-> << Run(<<"--output", display.name, "--pos", pos_str>>, outcome) >>,
         msgs  |-> << "Applying position shift: xrandr --output " \o display.name
                         \o " --pos " \o pos_str,
                      IF outcome = "ok"
                      THEN "[ok] Position shift applied: " \o pos_str
                      ELSE FailText("Position shift", outcome) >>,
         ret   |-> outcome = "ok"]

apply_pixel_shift_transform(display, x_offset, y_offset, outcome) ==
    LET tx == FmtFixed6(x_offset, display.width)
        ty == FmtFixed6(y_offset, display.height)
        transform_str == "1,0," \o tx \o ",0,1," \o ty \o ",0,0,1"
    IN  [calls |-> << Run(<<"--output", display.name, "--transform", transform_str>>, outcome) >>,
         msgs  |-> << "Applying transform shift: xrandr --output " \o display.name
                         \o " --transform " \o transform_str,
                      IF outcome = "ok"
                      THEN "[ok] Transform applied: "
                             \o FmtInt(IF x_offset # 0 THEN x_offset ELSE y_offset)
                             \o "px offset"
                      ELSE FailText("Transform", outcome) >>,
         ret   |-> outcome = "ok"]

apply_pixel_shift_panning_smooth(display, x_offset, y_offset, outcome) ==
    LET panning_w == display.width + PanMargin
        panning_h == display.height + PanMargin
        panning_spec == FmtNat(panning_w) \o "x" \o FmtNat(panning_h)
                          \o "+" \o FmtInt(x_offset) \o "+" \o FmtInt(y_offset)
    IN  [calls |-> << Run(<<"--output", display.name, "--panning", panning_spec>>, outcome) >>,
         msgs  |-> << "Applying smooth panning: xrandr --output " \o display.name
                         \o " --panning " \o panning_spec,
                      IF outcome = "ok"
                      THEN "[ok] Smooth panning applied: +" \o FmtInt(x_offset)
                             \o "+" \o FmtInt(y_offset)
                      ELSE FailText("Smooth panning", outcome) >>,
         ret   |-> outcome = "ok"]

\* match method_idx { 0 => transform, 1 => smooth, 2 => position, 3 => panning, _ => transform }
ApplyShift(method_idx, display, x_offset, y_offset, outcome) ==
    CASE method_idx = 0 -> apply_pixel_shift_transform(display, x_offset, y_offset, outcome)
      [] method_idx = 1 -> apply_pixel_shift_panning_smooth(display, x_offset, y_offset, outcome)
      [] method_idx = 2 -> apply_pixel_shift_position(display, x_offset, y_offset, outcome)
      [] method_idx = 3 -> apply_pixel_shift_panning(display, x_offset, y_offset, outcome)
      [] OTHER          -> apply_pixel_shift_transform(display, x_offset, y_offset, outcome)

(* ----------------------------- reset protocol -------------------------- *)
IdentityTransform == "1,0,0,0,1,0,0,0,1"

\* the four attempts of reset_display_safe, in source order
ResetArgs(name) ==
    << <<"--output", name, "--transform", IdentityTransform>>,
       <<"--output", name, "--panning", "0x0">>,
       <<"--output", name, "--pos", "0x0">>,
       <<"--output", name, "--auto">> >>

\* mutant: every attempt is made, whatever the earlier ones returned
reset_display_safe_no_early_return(display, outs) ==
    LET a == ResetArgs(display.name)
        ok == \E i \in 1..4 : outs[i] = "ok"
    IN  [calls |-> [i \in 1..4 |-> Run(a[i], outs[i])],
         msgs  |-> << IF ok THEN "[ok] Auto reset successful for " \o display.name
                      ELSE "[x] All reset methods failed for " \o display.name >>,
         ret   |-> ok]

\* mutant: the fallback arm of the last match reports success
reset_display_safe_always_true(display, outs) ==
    LET a == ResetArgs(display.name)
        n == IF \E i \in 1..4 : outs[i] = "ok"
             THEN CHOOSE i \in 1..4 : outs[i] = "ok" /\ \A j \in 1..(i - 1) : outs[j] # "ok"
             ELSE 4
    IN  [calls |-> [i \in 1..n |-> Run(a[i], outs[i])],
         msgs  |-> << "[ok] Auto reset successful for " \o display.name >>,
         ret   |-> TRUE]

\* outs[i] is the outcome the tool would give to the i-th attempt
reset_display_safe(display, outs) ==
    LET a  == ResetArgs(display.name)
        c1 == Run(a[1], outs[1])
        c2 == Run(a[2], outs[2])
        c3 == Run(a[3], outs[3])
        c4 == Run(a[4], outs[4])
    IN  IF outs[1] = "ok"
        THEN [calls |-> <<c1>>,
              msgs  |-> << "[ok] Transform reset successful for " \o display.name >>,
              ret   |-> TRUE]
        ELSE IF outs[2] = "ok"
        THEN [calls |-> <<c1, c2>>,
              msgs  |-> << "[ok] Panning reset successful for " \o display.name >>,
              ret   |-> TRUE]
        ELSE IF outs[3] = "ok"
        THEN [calls |-> <<c1, c2, c3>>,
              msgs  |-> << "[ok] Position reset successful for " \o display.name >>,
              ret   |-> TRUE]
        ELSE IF outs[4] = "ok"
        THEN [calls |-> <<c1, c2, c3, c4>>,
              msgs  |-> << "[ok] Auto reset successful for " \o display.name >>,
              ret   |-> TRUE]
        ELSE [calls |-> <<c1, c2, c3, c4>>,
              msgs  |-> << "[x] All reset methods failed for " \o display.name >>,
              ret   |-> FALSE]

(* ------------------------------ ShiftPattern --------------------------- *)
\* mutant: the ring is walked the other way round
ShiftPattern_new_counterclockwise(shift_amount) ==
    [positions |-> << <<0, 0>>,
                      <<shift_amount, 0>>,
                      <<shift_amount, 0 - shift_amount>>,
                      <<0, 0 - shift_amount>>,
                      <<0 - shift_amount, 0 - shift_amount>>,
                      <<0 - shift_amount, 0>>,
                      <<0 - shift_amount, shift_amount>>,
                      <<0, shift_amount>>,
                      <<shift_amount, shift_amount>> >>,
     current_index |-> 0]

ShiftPattern_new(shift_amount) ==
    [positions |-> << <<0, 0>>,
                      <<shift_amount, 0>>,
                      <<shift_amount, shift_amount>>,
                      <<0, shift_amount>>,
                      <<0 - shift_amount, shift_amount>>,
                      <<0 - shift_amount, 0>>,
                      <<0 - shift_amount, 0 - shift_amount>>,
                      <<0, 0 - shift_amount>>,
                      <<shift_amount, 0 - shift_amount>> >>,
     current_index |-> 0]

\* returns the position under the cursor and the pattern with the cursor advanced
ShiftPattern_next(p) ==
    [pos |-> p.positions[p.current_index + 1],
     pattern |-> [p EXCEPT !.current_index = (p.current_index + 1) % Len(p.positions)]]

\* mutant: the cursor is left where it is
ShiftPattern_reset_noop(p) == p

ShiftPattern_reset(p) == [p EXCEPT !.current_index = 0]

(* -------------------------------- state --------------------------------- *)
VARIABLES
    displays,        \* Rc<RefCell<Vec<DisplayInfo>>> filled once by get_connected_displays()
    combo_active,    \* combo.active(): Option of an index into displays (1-based here)
    running_id,      \* Rc<RefCell<Option<SourceId>>>
    shift_pattern,   \* Rc<RefCell<Option<ShiftPattern>>>
    TOGGLE,          \* static mut TOGGLE: bool of the timer closure
    start_sensitive, \* sensitivity of start_button
    sources,         \* repeating timeout sources armed by start, attached to the main context
    pending_resets,  \* one-shot 3 s timeouts armed by test shifts, oldest first
    panicked,        \* the process aborted on a Rust panic
    lastOp,          \* the handler or callback that ran last; src is the id of the source
                     \* a tick ran for or a stop removed (0 when there is none)
    prevWasStop,     \* lastOp is a run of the stop handler that directly followed another
    calls,           \* xrandr invocations made by lastOp, in order, with their outcomes
    msgs,            \* status texts handed to set_text_safe by lastOp, in order
    lastReset,       \* the run of reset_display_safe made by lastOp, if any
    probe,           \* inputs and results of a function exercised on its own (None in Spec)
    run_ticks        \* history: ticks of the current run, counted modulo the period of
                     \* its mode (9 with the pattern, 2 without); 0 when no run is on

vars == << displays, combo_active, running_id, shift_pattern, TOGGLE, start_sensitive,
           sources, pending_resets, panicked, lastOp, prevWasStop, calls, msgs, lastReset,
           probe, run_ticks >>

\* the state the handlers share, without the record of the last operation
sched == << running_id, shift_pattern, TOGGLE, start_sensitive, sources >>

Displays(n) == SubSeq(AllDisplays, 1, n)

ShiftAmounts == {MinShift, MaxShift}
Methods == {0, MaxMethod}
\* the outcomes of the four attempts of one reset: every combination
OutcomeVectors == [1..4 -> Outcomes]
\* the outcomes explored together with the schedule. One strategy call succeeds
\* or fails; the two ways of failing differ in the status text only, and
\* SpecStrategy covers both. For the four attempts of a reset: xrandr cannot be
\* launched at all, or it exits with a failure status up to some attempt and
\* with success from then on (k = 5: it never succeeds)
SchedOutcomes == {"ok", "launch_err"}

SchedOutcomeVectors ==
    {[i \in 1..4 |-> IF i < k THEN "nonzero" ELSE "ok"] : k \in 1..5}
        \cup {[i \in 1..4 |-> "launch_err"]}

SourceIds(srcs) == {s.id : s \in srcs}

\* glib hands out a source id that no attached source carries
FreshId(srcs) == CHOOSE i \in 1..(Cardinality(srcs) + 1) : i \notin SourceIds(srcs)

\* mutant: the source stays attached
source_remove_noop(srcs, id) == srcs

\* SourceId::remove() on an attached source
source_remove(srcs, id) == {s \in srcs : s.id # id}

\* mutant: the first display is taken, whatever the combo box shows
selected_display_first(combo, disps) ==
    IF Len(disps) > 0 THEN Some(disps[1]) ELSE None

\* combo.active() followed by displays.borrow().get(active_idx)
SelectedDisplay(combo, disps) ==
    IF IsSome(combo) /\ Unwrap(combo) \in 1..Len(disps)
    THEN Some(disps[Unwrap(combo)])
    ELSE None

\* mutant: start never sees a running schedule
already_running_never(rid) == FALSE

\* if running_id.borrow().is_some() { return; }
already_running(rid) == IsSome(rid)

\* mutant: the timer closure gives up after a failed shift
tick_control_flow_break_on_failure(success) == IF success THEN "Continue" ELSE "Break"

\* the value the timer closure returns: ControlFlow::Continue
tick_control_flow(success) == "Continue"

\* mutant: the handle is read but left in place
running_id_after_take_kept(rid) == rid

\* running_id.borrow_mut().take() leaves None behind
running_id_after_take(rid) == None

\* mutant: the reset timeout is armed whatever the test shift returned
arms_deferred_reset_always(success) == TRUE

\* if success { glib::timeout_add_local(Duration::from_secs(3), ...) }
arms_deferred_reset(success) == success

Observe(op, src, c, m, r) ==
    /\ lastOp' = [name |-> op, src |-> src]
    /\ prevWasStop' = (op = "stop" /\ lastOp.name = "stop")
    /\ calls' = c
    /\ msgs' = m
    /\ lastReset' = r
    /\ probe' = probe

ResetRecord(display, res) ==
    Some([display |-> display.name, ret |-> res.ret])

Init ==
    /\ \E n \in {0, MaxDisplays} :
          /\ displays = Displays(n)
          /\ combo_active = IF n > 0 THEN Some(1) ELSE None
    /\ running_id = None
    /\ shift_pattern = None
    /\ TOGGLE = FALSE
    /\ start_sensitive = TRUE
    /\ sources = {}
    /\ pending_resets = <<>>
    /\ panicked = FALSE
    /\ lastOp = [name |-> "init", src |-> 0]
    /\ prevWasStop = FALSE
    /\ calls = <<>>
    /\ msgs = <<>>
    /\ lastReset = None
    /\ probe = None
    /\ run_ticks = 0

(* ------------------------------- actions ------------------------------- *)
\* the user picks another entry of the display combo box
SelectDisplay(i) ==
    /\ ~panicked
    /\ i \in 1..Len(displays)
    /\ combo_active # Some(i)
    /\ combo_active' = Some(i)
    /\ Observe("select", 0, <<>>, <<>>, None)
    /\ UNCHANGED << displays, running_id, shift_pattern, TOGGLE, start_sensitive,
                    sources, pending_resets, panicked, run_ticks >>

\* test_button.connect_clicked
TestShift(shift_amount, method_idx, outcome) ==
    /\ ~panicked
    /\ Len(pending_resets) < MaxPending
    /\ LET sel == SelectedDisplay(combo_active, displays) IN
       IF IsSome(sel)
       THEN LET display == Unwrap(sel)
                res == ApplyShift(method_idx, display, shift_amount, shift_amount, outcome)
            IN  /\ pending_resets' = IF arms_deferred_reset(res.ret)
                                     THEN Append(pending_resets, display)
                                     ELSE pending_resets
                /\ Observe("test", 0, res.calls,
                           <<"Testing pixel shift...">> \o res.msgs, None)
       ELSE /\ pending_resets' = pending_resets
            /\ Observe("test", 0, <<>>, <<>>, None)
    /\ UNCHANGED << displays, combo_active, running_id, shift_pattern, TOGGLE,
                    start_sensitive, sources, panicked, run_ticks >>

\* mutant: the expiring timeout also forgets the handle of the shift timer
DeferredReset_forgets_handle(outs) ==
    /\ ~panicked
    /\ pending_resets # <<>>
    /\ LET display == Head(pending_resets)
           res == reset_display_safe(display, outs)
       IN  Observe("deferred_reset", 0, res.calls, res.msgs, ResetRecord(display, res))
    /\ pending_resets' = Tail(pending_resets)
    /\ running_id' = None
    /\ UNCHANGED << displays, combo_active, shift_pattern, TOGGLE,
                    start_sensitive, sources, panicked, run_ticks >>

\* the 3 second timeout armed by a successful test shift expires; the timeouts
\* have the same delay, so they expire in the order they were armed
DeferredReset(outs) ==
    /\ ~panicked
    /\ pending_resets # <<>>
    /\ LET display == Head(pending_resets)
           res == reset_display_safe(display, outs)
       IN  Observe("deferred_reset", 0, res.calls, res.msgs, ResetRecord(display, res))
    \* ControlFlow::Break: glib destroys the source
    /\ pending_resets' = Tail(pending_resets)
    /\ UNCHANGED << displays, combo_active, running_id, shift_pattern, TOGGLE,
                    start_sensitive, sources, panicked, run_ticks >>

\* start_button.connect_clicked
Start(shift_amount, method_idx, use_pattern, interval) ==
    /\ ~panicked
    /\ LET sel == SelectedDisplay(combo_active, displays) IN
       IF already_running(running_id)
       THEN /\ Observe("start", 0, <<>>, <<>>, None)
            /\ UNCHANGED << running_id, shift_pattern, start_sensitive, sources, run_ticks >>
       ELSE IF IsSome(sel)
       THEN LET display == Unwrap(sel)
                interval_secs == Max2(interval, IntervalFloor)
                sid == FreshId(sources)
            IN  /\ shift_pattern' = IF use_pattern
                                    THEN Some(ShiftPattern_new(shift_amount))
                                    ELSE shift_pattern
                /\ sources' = sources \cup
                                {[id |-> sid, display |-> display,
                                  shift_amount |-> shift_amount,
                                  method_idx |-> method_idx,
                                  use_pattern |-> use_pattern]}
                /\ running_id' = Some(sid)
                /\ start_sensitive' = FALSE
                /\ run_ticks' = 0
                /\ Observe("start", 0, <<>>,
                           << "Starting auto-shift for " \o display.name \o " every "
                                \o FmtNat(interval_secs) \o "s" >>, None)
       ELSE /\ Observe("start", 0, <<>>, <<>>, None)
            /\ UNCHANGED << running_id, shift_pattern, start_sensitive, sources, run_ticks >>
    /\ UNCHANGED << displays, combo_active, TOGGLE, pending_resets, panicked >>

\* the repeating timeout armed by start: one run of its closure
Tick(s, outcome) ==
    /\ ~panicked
    /\ s \in sources
    /\ LET fromPattern == s.use_pattern /\ IsSome(shift_pattern)
           nxt == ShiftPattern_next(Unwrap(shift_pattern))
           toggled == ~TOGGLE
           offset == IF s.use_pattern
                     THEN IF IsSome(shift_pattern)
                          THEN nxt.pos
                          ELSE <<s.shift_amount, s.shift_amount>>
                     ELSE IF toggled
                          THEN <<s.shift_amount, s.shift_amount>>
                          ELSE <<0, 0>>
           res == ApplyShift(s.method_idx, s.display, offset[1], offset[2], outcome)
       IN  /\ shift_pattern' = IF fromPattern THEN Some(nxt.pattern) ELSE shift_pattern
           /\ TOGGLE' = IF s.use_pattern THEN TOGGLE ELSE toggled
           /\ sources' = IF tick_control_flow(res.ret) = "Continue"
                         THEN sources
                         ELSE source_remove(sources, s.id)
           /\ run_ticks' = (run_ticks + 1) % (IF s.use_pattern THEN 9 ELSE 2)
           /\ Observe("tick", s.id, res.calls, res.msgs, None)
    /\ UNCHANGED << displays, combo_active, running_id, start_sensitive,
                    pending_resets, panicked >>

\* stop_button.connect_clicked
Stop(outs) ==
    /\ ~panicked
    /\ IF IsSome(running_id) /\ Unwrap(running_id) \notin SourceIds(sources)
       THEN \* SourceId::remove() panics when the source is gone
            /\ panicked' = TRUE
            /\ running_id' = running_id_after_take(running_id)
            /\ Observe("stop", 0, <<>>, <<>>, None)
            /\ UNCHANGED << shift_pattern, start_sensitive, sources, run_ticks >>
       ELSE LET sel == SelectedDisplay(combo_active, displays)
                res == reset_display_safe(Unwrap(sel), outs)
                removed == IF IsSome(running_id) THEN Unwrap(running_id) ELSE 0
            IN  /\ panicked' = FALSE
                /\ running_id' = running_id_after_take(running_id)
                /\ sources' = IF IsSome(running_id)
                              THEN source_remove(sources, Unwrap(running_id))
                              ELSE sources
                /\ shift_pattern' = IF IsSome(shift_pattern)
                                    THEN Some(ShiftPattern_reset(Unwrap(shift_pattern)))
                                    ELSE shift_pattern
                /\ start_sensitive' = TRUE
                /\ run_ticks' = 0
                /\ IF IsSome(sel)
                   THEN Observe("stop", removed, res.calls,
                                res.msgs \o <<"Auto-shift stopped and display reset.">>,
                                ResetRecord(Unwrap(sel), res))
                   ELSE Observe("stop", removed, <<>>,
                                <<"Auto-shift stopped and display reset.">>, None)
    /\ UNCHANGED << displays, combo_active, TOGGLE, pending_resets >>

Next ==
    \/ \E i \in 1..MaxDisplays : SelectDisplay(i)
    \/ \E a \in ShiftAmounts, m \in Methods, o \in SchedOutcomes : TestShift(a, m, o)
    \/ \E outs \in SchedOutcomeVectors : DeferredReset(outs)
    \/ \E a \in ShiftAmounts, m \in Methods, p \in BOOLEAN, iv \in Intervals :
          Start(a, m, p, iv)
    \/ \E s \in sources, o \in SchedOutcomes : Tick(s, o)
    \/ \E outs \in SchedOutcomeVectors : Stop(outs)

Spec == Init /\ [][Next]_vars

\* the handlers that run the reset protocol, without a schedule, under every
\* combination of outcomes of the four attempts
NextReset ==
    \/ \E i \in 1..MaxDisplays : SelectDisplay(i)
    \/ \E a \in ShiftAmounts, m \in Methods, o \in Outcomes : TestShift(a, m, o)
    \/ \E outs \in OutcomeVectors : DeferredReset(outs)
    \/ \E outs \in OutcomeVectors : Stop(outs)

SpecReset == Init /\ [][NextReset]_vars

\* the glib main loop dispatches a timeout that has expired
SpecResetFair ==
    SpecReset /\ WF_vars(\E outs \in OutcomeVectors : DeferredReset(outs))

(* ------------------------- display query parser ------------------------ *)
\* Text is a sequence of one-character strings, a report a sequence of lines
\* (what output.lines() yields).
DecimalDigits == {"0", "1", "2", "3", "4", "5", "6", "7", "8", "9"}

DigitValue(c) ==
    CASE c = "0" -> 0 [] c = "1" -> 1 [] c = "2" -> 2 [] c = "3" -> 3 [] c = "4" -> 4
      [] c = "5" -> 5 [] c = "6" -> 6 [] c = "7" -> 7 [] c = "8" -> 8 [] c = "9" -> 9

is_whitespace(c) == c \in {" ", "\t"}

\* str::starts_with(&str)
starts_with(s, p) == Len(p) <= Len(s) /\ SubSeq(s, 1, Len(p)) = p

\* str::contains(&str)
contains(s, p) == \E i \in 0..(Len(s) - Len(p)) : SubSeq(s, i + 1, i + Len(p)) = p

\* str::contains(char)
contains_char(s, c) == \E i \in 1..Len(s) : s[i] = c

\* str::split_once(char): the parts before and after the first c, if there is one
split_once(s, c) ==
    IF contains_char(s, c)
    THEN LET i == CHOOSE k \in 1..Len(s) : s[k] = c /\ \A j \in 1..(k - 1) : s[j] # c
         IN  Some(<<SubSeq(s, 1, i - 1), SubSeq(s, i + 1, Len(s))>>)
    ELSE None

\* str::split_whitespace().collect()
RECURSIVE split_whitespace(_)
split_whitespace(s) ==
    IF s = <<>> THEN <<>>
    ELSE IF is_whitespace(s[1]) THEN split_whitespace(Tail(s))
    ELSE LET ws == {i \in 1..Len(s) : is_whitespace(s[i])}
             n  == IF ws = {} THEN Len(s)
                   ELSE (CHOOSE i \in ws : \A j \in ws : i <= j) - 1
         IN  <<SubSeq(s, 1, n)>> \o split_whitespace(SubSeq(s, n + 1, Len(s)))

RECURSIVE trim_start(_)
trim_start(s) == IF s # <<>> /\ is_whitespace(s[1]) THEN trim_start(Tail(s)) ELSE s

RECURSIVE trim_end(_)
trim_end(s) ==
    IF s # <<>> /\ is_whitespace(s[Len(s)]) THEN trim_end(SubSeq(s, 1, Len(s) - 1)) ELSE s

\* str::trim()
trim(s) == trim_end(trim_start(s))

\* str::trim_end_matches(char)
RECURSIVE trim_end_matches(_, _)
trim_end_matches(s, c) ==
    IF s # <<>> /\ s[Len(s)] = c THEN trim_end_matches(SubSeq(s, 1, Len(s) - 1), c) ELSE s

RECURSIVE DecimalValue(_)
DecimalValue(ds) ==
    IF ds = <<>> THEN 0
    ELSE 10 * DecimalValue(SubSeq(ds, 1, Len(ds) - 1)) + DigitValue(ds[Len(ds)])

AllDigits(ds) == \A i \in 1..Len(ds) : ds[i] \in DecimalDigits

\* str::parse::<u32>(): an optional "+" and at least one digit. Numbers of up
\* to 9 digits are represented; longer ones are taken as out of range.
parse_u32(s) ==
    LET ds == IF s # <<>> /\ s[1] = "+" THEN Tail(s) ELSE s
    IN  IF ds # <<>> /\ AllDigits(ds) /\ Len(ds) <= 9 THEN Some(DecimalValue(ds)) ELSE None

\* str::parse::<f64>() for plain decimal text with at most two decimals, the
\* value in hundredths; other text is taken as not a number
parse_f64(s) ==
    LET neg  == s # <<>> /\ s[1] = "-"
        body == IF s # <<>> /\ s[1] \in {"+", "-"} THEN Tail(s) ELSE s
        dot  == split_once(body, ".")
        int  == IF IsSome(dot) THEN Unwrap(dot)[1] ELSE body
        frac == IF IsSome(dot) THEN Unwrap(dot)[2] ELSE <<>>
        mag  == 100 * DecimalValue(int)
                  + (IF Len(frac) = 0 THEN 0
                     ELSE IF Len(frac) = 1 THEN 10 * DecimalValue(frac)
                     ELSE DecimalValue(frac))
    IN  IF /\ AllDigits(int) /\ AllDigits(frac)
           /\ Len(int) + Len(frac) > 0
           /\ Len(int) <= 6 /\ Len(frac) <= 2
        THEN Some(IF neg THEN 0 - mag ELSE mag)
        ELSE None

\* 60.0, in hundredths
DefaultRefresh == 6000

W_connected == <<"c", "o", "n", "n", "e", "c", "t", "e", "d">>
W_sp_connected == <<" ", "c", "o", "n", "n", "e", "c", "t", "e", "d">>
W_disconnected == <<"d", "i", "s", "c", "o", "n", "n", "e", "c", "t", "e", "d">>
W_primary == <<"p", "r", "i", "m", "a", "r", "y">>

\* the width and height a token of the header line gives, if it gives them
token_geometry(part) ==
    IF contains_char(part, "x") /\ contains_char(part, "+")
    THEN LET res_part == Unwrap(split_once(part, "+"))[1]
             wh == split_once(res_part, "x")
         IN  IF /\ IsSome(wh)
                /\ IsSome(parse_u32(Unwrap(wh)[1]))
                /\ IsSome(parse_u32(Unwrap(wh)[2]))
             THEN Some(<<Unwrap(parse_u32(Unwrap(wh)[1])), Unwrap(parse_u32(Unwrap(wh)[2]))>>)
             ELSE None
    ELSE None

\* for part in parts: the first token that gives a width and height
header_geometry(parts) ==
    LET hits == {i \in 1..Len(parts) : IsSome(token_geometry(parts[i]))}
    IN  IF hits = {} THEN None
        ELSE token_geometry(parts[CHOOSE i \in hits : \A j \in hits : i <= j])

\* a line that starts with a digit after trimming, taken as a mode line
active_mode(line) ==
    IF contains_char(line, "*") /\ contains_char(line, "+")
    THEN LET parts == split_whitespace(trim(line))
             wh == split_once(parts[1], "x")
             marked == {i \in 1..Len(parts) : contains_char(parts[i], "*")}
             rate == parse_f64(trim_end_matches(
                         trim_end_matches(parts[CHOOSE i \in marked : \A j \in marked : i <= j],
                                          "*"), "+"))
         IN  IF /\ IsSome(wh)
                /\ IsSome(parse_u32(Unwrap(wh)[1]))
                /\ IsSome(parse_u32(Unwrap(wh)[2]))
             THEN Some(<<Unwrap(parse_u32(Unwrap(wh)[1])), Unwrap(parse_u32(Unwrap(wh)[2])),
                         IF IsSome(rate) THEN Unwrap(rate) ELSE DefaultRefresh>>)
             ELSE None
    ELSE None

\* the loop of parse_current_mode from line i on
RECURSIVE scan_lines(_, _, _, _)
scan_lines(lines, display_name, i, found_display) ==
    IF i > Len(lines) THEN None
    ELSE LET line == lines[i] IN
         IF starts_with(line, display_name) /\ contains(line, W_connected)
         THEN LET g == header_geometry(split_whitespace(line)) IN
              IF IsSome(g)
              THEN Some(<<Unwrap(g)[1], Unwrap(g)[2], DefaultRefresh>>)
              ELSE scan_lines(lines, display_name, i + 1, TRUE)
         ELSE IF /\ found_display
                 /\ trim(line) # <<>>
                 /\ trim(line)[1] \in DecimalDigits
         THEN IF IsSome(active_mode(line))
              THEN active_mode(line)
              ELSE scan_lines(lines, display_name, i + 1, found_display)
         ELSE IF /\ found_display
                 /\ ~starts_with(line, <<" ">>)
                 /\ ~starts_with(line, <<"\t">>)
         THEN None
         ELSE scan_lines(lines, display_name, i + 1, found_display)

parse_current_mode(xrandr_output, display_name) ==
    scan_lines(xrandr_output, display_name, 1, FALSE)

\* the loop of get_connected_displays from line i on
RECURSIVE collect_displays(_, _)
collect_displays(output, i) ==
    IF i > Len(output) THEN <<>>
    ELSE LET line == output[i]
             parts == split_whitespace(line)
             mode == parse_current_mode(output, parts[1])
         IN  IF /\ contains(line, W_sp_connected)
                /\ ~contains(line, W_disconnected)
                /\ parts # <<>>
                /\ IsSome(mode)
             THEN << [name |-> parts[1],
                      width |-> Unwrap(mode)[1],
                      height |-> Unwrap(mode)[2],
                      refresh_rate |-> Unwrap(mode)[3],
                      is_primary |-> contains(line, W_primary)] >>
                      \o collect_displays(output, i + 1)
             ELSE collect_displays(output, i + 1)

\* launched: Command::new("xrandr").arg("--query").output() was Ok
get_connected_displays(launched, output) ==
    IF launched THEN collect_displays(output, 1) ELSE <<>>

(* ------------------------- ShiftPattern on its own --------------------- *)
\* everything but shift_pattern and probe, as build_ui leaves it
NoSchedule ==
    /\ displays = <<>>
    /\ combo_active = None
    /\ running_id = None
    /\ TOGGLE = FALSE
    /\ start_sensitive = TRUE
    /\ sources = {}
    /\ pending_resets = <<>>
    /\ panicked = FALSE
    /\ lastOp = [name |-> "init", src |-> 0]
    /\ prevWasStop = FALSE
    /\ calls = <<>>
    /\ msgs = <<>>
    /\ lastReset = None
    /\ run_ticks = 0

NoScheduleUnchanged ==
    UNCHANGED << displays, combo_active, running_id, TOGGLE, start_sensitive, sources,
                 pending_resets, panicked, lastOp, prevWasStop, calls, msgs, lastReset,
                 run_ticks >>

PatternAmounts == MinShift..SpinMaxShift

\* a fresh ShiftPattern::new(a); probe.log lists what the calls made on it
\* returned: the position for next(), <<>> for reset()
InitPattern ==
    /\ NoSchedule
    /\ \E a \in PatternAmounts :
          /\ shift_pattern = Some(ShiftPattern_new(a))
          /\ probe = [amount |-> a, log |-> <<>>]

PatternNext ==
    /\ Len(probe.log) < MaxPatternCalls
    /\ LET r == ShiftPattern_next(Unwrap(shift_pattern)) IN
          /\ shift_pattern' = Some(r.pattern)
          /\ probe' = [probe EXCEPT !.log = Append(@, r.pos)]
    /\ NoScheduleUnchanged

PatternReset ==
    /\ Len(probe.log) < MaxPatternCalls
    /\ shift_pattern' = Some(ShiftPattern_reset(Unwrap(shift_pattern)))
    /\ probe' = [probe EXCEPT !.log = Append(@, <<>>)]
    /\ NoScheduleUnchanged

NextPattern == PatternNext \/ PatternReset

SpecPattern == InitPattern /\ [][NextPattern]_vars

(* ----------------------- shift strategies on their own ----------------- *)
Offsets == (0 - MaxOffset)..MaxOffset

\* one strategy call to make: its display, offsets, strategy and tool outcome
InitStrategy ==
    /\ NoSchedule
    /\ shift_pattern = None
    /\ \E i \in 1..Len(AllDisplays), x \in Offsets, y \in Offsets,
          m \in 0..3, o \in Outcomes :
          probe = [display |-> AllDisplays[i], x_offset |-> x, y_offset |-> y,
                   method_idx |-> m, outcome |-> o, applied |-> FALSE]

ApplyStrategy ==
    /\ ~probe.applied
    /\ LET res == ApplyShift(probe.method_idx, probe.display, probe.x_offset,
                             probe.y_offset, probe.outcome) IN
          /\ calls' = res.calls
          /\ msgs' = res.msgs
          /\ probe' = [probe EXCEPT !.applied = TRUE]
    /\ UNCHANGED << displays, combo_active, running_id, shift_pattern, TOGGLE,
                    start_sensitive, sources, pending_resets, panicked, lastOp,
                    prevWasStop, lastReset, run_ticks >>

NextStrategy == ApplyStrategy

SpecStrategy == InitStrategy /\ [][NextStrategy]_vars

(* ---------------------- display query parser on its own --------------- *)
\* lines of xrandr --query reports: outputs DP-1, DP-1-1 (the second GPU's
\* DP-1) and HDMI-1, and the four kinds of mode line
Header_DP1_geometry ==
    \* "DP-1 connected primary 1920x1080+0+0 (normal left inverted right x axis y axis) 527mm x 296mm"
    << "D", "P", "-", "1", " ", "c", "o", "n", "n", "e", "c", "t", "e", "d", " ", "p",
       "r", "i", "m", "a", "r", "y", " ", "1", "9", "2", "0", "x", "1", "0", "8", "0",
       "+", "0", "+", "0", " ", "(", "n", "o", "r", "m", "a", "l", " ", "l", "e", "f",
       "t", " ", "i", "n", "v", "e", "r", "t", "e", "d", " ", "r", "i", "g", "h", "t",
       " ", "x", " ", "a", "x", "i", "s", " ", "y", " ", "a", "x", "i", "s", ")", " ",
       "5", "2", "7", "m", "m", " ", "x", " ", "2", "9", "6", "m", "m" >>

Header_DP1_off ==
    \* "DP-1 connected (normal left inverted right x axis y axis)"
    << "D", "P", "-", "1", " ", "c", "o", "n", "n", "e", "c", "t", "e", "d", " ", "(",
       "n", "o", "r", "m", "a", "l", " ", "l", "e", "f", "t", " ", "i", "n", "v", "e",
       "r", "t", "e", "d", " ", "r", "i", "g", "h", "t", " ", "x", " ", "a", "x", "i",
       "s", " ", "y", " ", "a", "x", "i", "s", ")" >>

Header_DP11_geometry ==
    \* "DP-1-1 connected 2560x1440+1920+0 (normal left inverted right x axis y axis) 597mm x 336mm"
    << "D", "P", "-", "1", "-", "1", " ", "c", "o", "n", "n", "e", "c", "t", "e", "d",
       " ", "2", "5", "6", "0", "x", "1", "4", "4", "0", "+", "1", "9", "2", "0", "+",
       "0", " ", "(", "n", "o", "r", "m", "a", "l", " ", "l", "e", "f", "t", " ", "i",
       "n", "v", "e", "r", "t", "e", "d", " ", "r", "i", "g", "h", "t", " ", "x", " ",
       "a", "x", "i", "s", " ", "y", " ", "a", "x", "i", "s", ")", " ", "5", "9", "7",
       "m", "m", " ", "x", " ", "3", "3", "6", "m", "m" >>

Header_DP11_disconnected ==
    \* "DP-1-1 disconnected (normal left inverted right x axis y axis)"
    << "D", "P", "-", "1", "-", "1", " ", "d", "i", "s", "c", "o", "n", "n", "e", "c",
       "t", "e", "d", " ", "(", "n", "o", "r", "m", "a", "l", " ", "l", "e", "f", "t",
       " ", "i", "n", "v", "e", "r", "t", "e", "d", " ", "r", "i", "g", "h", "t", " ",
       "x", " ", "a", "x", "i", "s", " ", "y", " ", "a", "x", "i", "s", ")" >>

Header_HDMI1_geometry ==
    \* "HDMI-1 connected 1280x720+0+0 (normal left inverted right x axis y axis) 160mm x 90mm"
    << "H", "D", "M", "I", "-", "1", " ", "c", "o", "n", "n", "e", "c", "t", "e", "d",
       " ", "1", "2", "8", "0", "x", "7", "2", "0", "+", "0", "+", "0", " ", "(", "n",
       "o", "r", "m", "a", "l", " ", "l", "e", "f", "t", " ", "i", "n", "v", "e", "r",
       "t", "e", "d", " ", "r", "i", "g", "h", "t", " ", "x", " ", "a", "x", "i", "s",
       " ", "y", " ", "a", "x", "i", "s", ")", " ", "1", "6", "0", "m", "m", " ", "x",
       " ", "9", "0", "m", "m" >>

Mode_active_preferred ==
    \* "   1920x1080     60.00*+  59.94"
    << " ", " ", " ", "1", "9", "2", "0", "x", "1", "0", "8", "0", " ", " ", " ", " ",
       " ", "6", "0", ".", "0", "0", "*", "+", " ", " ", "5", "9", ".", "9", "4" >>

Mode_active ==
    \* "   1280x720      60.00*   50.00"
    << " ", " ", " ", "1", "2", "8", "0", "x", "7", "2", "0", " ", " ", " ", " ", " ",
       " ", "6", "0", ".", "0", "0", "*", " ", " ", " ", "5", "0", ".", "0", "0" >>

Mode_preferred ==
    \* "   1024x768      60.00 +"
    << " ", " ", " ", "1", "0", "2", "4", "x", "7", "6", "8", " ", " ", " ", " ", " ",
       " ", "6", "0", ".", "0", "0", " ", "+" >>

Mode_plain ==
    \* "   800x600       56.25"
    << " ", " ", " ", "8", "0", "0", "x", "6", "0", "0", " ", " ", " ", " ", " ", " ",
       " ", "5", "6", ".", "2", "5" >>

ReportLines ==
    { Header_DP1_geometry,
      Header_DP1_off,
      Header_DP11_geometry,
      Header_DP11_disconnected,
      Header_HDMI1_geometry,
      Mode_active_preferred,
      Mode_active,
      Mode_preferred,
      Mode_plain }

IsHeaderLine(line) == line # <<>> /\ ~is_whitespace(line[1])

\* the reports xrandr can print with these lines: the first line is an output
\* header and no two headers name the same output
Reports ==
    { r \in UNION {[1..n -> ReportLines] : n \in 1..MaxLines} :
         /\ IsHeaderLine(r[1])
         /\ \A i, j \in 1..Len(r) :
               (i # j /\ IsHeaderLine(r[i]) /\ IsHeaderLine(r[j])) =>
                   split_whitespace(r[i])[1] # split_whitespace(r[j])[1] }

InitParser ==
    /\ NoSchedule
    /\ shift_pattern = None
    /\ \E r \in Reports, l \in BOOLEAN :
          probe = [report |-> r, launched |-> l, parsed |-> FALSE]

\* let displays = get_connected_displays();
QueryDisplays ==
    /\ ~probe.parsed
    /\ displays' = get_connected_displays(probe.launched, probe.report)
    /\ probe' = [probe EXCEPT !.parsed = TRUE]
    /\ UNCHANGED << combo_active, running_id, shift_pattern, TOGGLE, start_sensitive,
                    sources, pending_resets, panicked, lastOp, prevWasStop, calls, msgs,
                    lastReset, run_ticks >>

NextParser == QueryDisplays

SpecParser == InitParser /\ [][NextParser]_vars

(* ------------------------------- claims -------------------------------- *)
Failed(c) == c.result # "ok"
\* the display the combo box shows, if it shows one
Selected ==
    IF IsSome(combo_active) THEN Some(displays[Unwrap(combo_active)]) ELSE None
ResetFailedText(name) == "[x] All reset methods failed for " \o name

\* C1: a run of the reset protocol invokes identity transform, panning 0x0,
\* position 0x0, auto in that order, every attempt before the last one made
\* has failed, the run ends after the first success and then returns success:
\* the number of invocations is the index of the first success, or 4.
ResetStopsAtFirstSuccess ==
    IsSome(lastReset) =>
        LET r == Unwrap(lastReset)
            n == Len(calls)
            a == ResetArgs(r.display)
        IN  /\ n \in 1..4
            /\ \A i \in 1..n : calls[i].args = a[i]
            /\ \A i \in 1..(n - 1) : Failed(calls[i])
            /\ n < 4 => calls[n].result = "ok"
            /\ calls[n].result = "ok" => r.ret

\* a reset whose first attempt could not be launched and whose second succeeded
ResetSecondAttemptWins ==
    /\ IsSome(lastReset)
    /\ Len(calls) = 2
    /\ calls[1].result = "launch_err"
    /\ calls[2].result = "ok"
    /\ Unwrap(lastReset).ret

\* C2: a stop that ends a running schedule runs the reset protocol on the
\* display that schedule was shifting.
StopResetsDrivenDisplay ==
    [][(lastOp'.name = "stop" /\ IsSome(running_id)) =>
         \A s \in sources :
            s.id = Unwrap(running_id) =>
               /\ IsSome(lastReset')
               /\ Unwrap(lastReset').display = s.display.name]_vars

\* C3: a stop leaves no shift timer armed, and a tick only ever runs for the
\* timer whose handle is stored in running_id: between a stop and the next
\* start that arms a timer no tick fires.
NoTickAfterStop ==
    [][/\ lastOp'.name = "stop" => (running_id' = None /\ sources' = {})
       /\ lastOp'.name = "tick" =>
             (IsSome(running_id) /\ lastOp'.src = Unwrap(running_id))]_vars

\* a stop has just removed the timer of a running schedule
StoppedARunningSchedule ==
    /\ lastOp.name = "stop"
    /\ lastOp.src # 0
    /\ running_id = None
    /\ sources = {}

\* C4: start while a schedule is running changes nothing: the handle, the armed
\* timer with its display, shift amount, strategy and pattern flag, the
\* pattern and its cursor stay as they are and no command is run.
StartWhileRunningIsNoOp ==
    [][(lastOp'.name = "start" /\ IsSome(running_id)) =>
         /\ UNCHANGED << running_id, sources, shift_pattern, TOGGLE, start_sensitive,
                         pending_resets, combo_active >>
         /\ calls' = <<>>]_vars

\* start ran while a schedule was driving another display than the selected one
StartedWhileRunningOtherDisplay ==
    /\ lastOp.name = "start"
    /\ msgs = <<>>
    /\ IsSome(running_id)
    /\ IsSome(Selected)
    /\ \E s \in sources : s.display # Unwrap(Selected)

\* C5: at most one repeating shift timer is armed, and running_id holds a
\* handle exactly when one is armed, the handle of that timer.
OneTimerIffRunning ==
    /\ Cardinality(sources) <= 1
    /\ IsSome(running_id) <=> sources # {}
    /\ IsSome(running_id) => Unwrap(running_id) \in SourceIds(sources)

\* a schedule is running, has ticked, and a test shift is waiting for its reset
RunningWithPendingTestReset ==
    /\ IsSome(running_id)
    /\ lastOp.name = "tick"
    /\ pending_resets # <<>>
    /\ Cardinality(sources) = 1

\* C6: a tick whose xrandr invocation fails leaves the schedule running with
\* its timer armed, and only the stop handler clears running_id.
FailedTickKeepsSchedule ==
    [][/\ (lastOp'.name = "tick" /\ Failed(calls'[1])) =>
             /\ IsSome(running_id')
             /\ running_id' = running_id
             /\ sources' = sources
             /\ lastOp'.src \in SourceIds(sources')
       /\ (IsSome(running_id) /\ ~IsSome(running_id')) => lastOp'.name = "stop"]_vars

\* a tick has just failed to launch xrandr and the schedule is still running
TickFailedStillRunning ==
    /\ lastOp.name = "tick"
    /\ calls[1].result = "launch_err"
    /\ IsSome(running_id)
    /\ sources # {}

\* C7: a stop that directly follows a stop does not panic, leaves the
\* scheduler idle with no timer armed, and runs the reset protocol on the
\* selected display again.
StopTwice ==
    [][(lastOp.name = "stop" /\ lastOp'.name = "stop") =>
         /\ ~panicked'
         /\ running_id' = None
         /\ sources' = {}
         /\ IsSome(Selected') =>
               /\ IsSome(lastReset')
               /\ Unwrap(lastReset').display = Unwrap(Selected').name
               /\ calls' # <<>>]_vars

\* the stop handler ran twice in a row, the first time ending a schedule
StoppedTwice ==
    /\ lastOp.name = "stop"
    /\ prevWasStop
    /\ IsSome(lastReset)
    /\ IsSome(shift_pattern)
    /\ running_id = None

\* C8 as stated: stop while idle runs no command and changes no scheduler state.
StopWhileIdleIsNoOp ==
    [][(lastOp'.name = "stop" /\ ~IsSome(running_id)) =>
         /\ calls' = <<>>
         /\ UNCHANGED << running_id, sources, shift_pattern, TOGGLE, start_sensitive >>]_vars

\* C8 amended: stop while idle changes no scheduler state, but it emits a
\* status and, when a display is selected, runs the reset protocol on it,
\* starting with the identity transform.
StopWhileIdleOnlyResets ==
    [][(lastOp'.name = "stop" /\ ~IsSome(running_id)) =>
         /\ UNCHANGED << running_id, sources, shift_pattern, TOGGLE, start_sensitive,
                         pending_resets, combo_active >>
         /\ msgs' # <<>>
         /\ IF IsSome(Selected)
            THEN /\ IsSome(lastReset')
                 /\ Unwrap(lastReset').display = Unwrap(Selected).name
                 /\ calls' # <<>>
                 /\ calls'[1].args = ResetArgs(Unwrap(Selected).name)[1]
            ELSE calls' = <<>> /\ lastReset' = None]_vars

\* stop ran while idle with the second display selected, and reset it
StoppedWhileIdle ==
    /\ lastOp.name = "stop"
    /\ lastOp.src = 0
    /\ combo_active = Some(2)
    /\ IsSome(lastReset)
    /\ calls # <<>>

\* C9: a run of the reset protocol returns failure exactly when it made all
\* four attempts and each failed; it then emits the failure status and the
\* process goes on; in every other case it returns success without that status.
ResetFailsIffAllFail ==
    IsSome(lastReset) =>
        LET r == Unwrap(lastReset)
            allFailed == Len(calls) = 4 /\ \A i \in 1..4 : Failed(calls[i])
        IN  /\ ~r.ret <=> allFailed
            /\ ~r.ret => (msgs[1] = ResetFailedText(r.display) /\ ~panicked)
            /\ r.ret => \A i \in 1..Len(msgs) : msgs[i] # ResetFailedText(r.display)

\* a reset whose four attempts failed, by exit status and by launch failure
ResetExhausted ==
    /\ IsSome(lastReset)
    /\ ~Unwrap(lastReset).ret
    /\ Len(calls) = 4
    /\ calls[1].result = "nonzero"
    /\ calls[2].result = "launch_err"

\* C10: every run of the test, start or stop handler emits a status message.
EveryOperationEmitsStatus ==
    lastOp.name \in {"test", "start", "stop"} => msgs # <<>>

\* C11: on a fresh pattern built from a, the n-th next() since the pattern was
\* built or last reset returns entry ((n - 1) mod 9) of (0,0),(a,0),(a,a),
\* (0,a),(-a,a),(-a,0),(-a,-a),(0,-a),(a,-a): nine successive calls return the
\* nine entries in that order, the tenth repeats the first; the cursor stays
\* within 0..8.
ClockwiseRing(a) ==
    << <<0, 0>>, <<a, 0>>, <<a, a>>, <<0, a>>, <<0 - a, a>>, <<0 - a, 0>>,
       <<0 - a, 0 - a>>, <<0, 0 - a>>, <<a, 0 - a>> >>

\* number of next() calls among log[1..i] made after the last reset() in it
NextsSinceReset(log, i) ==
    LET resets == {j \in 1..i : log[j] = <<>>}
        last == IF resets = {} THEN 0 ELSE CHOOSE j \in resets : \A k \in resets : k <= j
    IN  i - last

PatternFollowsRing ==
    LET log == probe.log
        cur == Unwrap(shift_pattern).current_index
    IN  /\ \A i \in 1..Len(log) :
              log[i] # <<>> =>
                  log[i] = ClockwiseRing(probe.amount)[((NextsSinceReset(log, i) - 1) % 9) + 1]
        /\ cur \in 0..8
        /\ cur = NextsSinceReset(log, Len(log)) % 9

\* ten next() calls on a fresh pattern of amount 3: the tenth repeats the first
PatternWrapped ==
    /\ probe.amount = 3
    /\ Len(probe.log) = 10
    /\ \A i \in 1..10 : probe.log[i] # <<>>
    /\ probe.log[9] = <<3, 0 - 3>>
    /\ probe.log[10] = probe.log[1]
    /\ Unwrap(shift_pattern).current_index = 1

\* C12: the position strategy writes dx with its own sign only, and dy with
\* its minus sign when negative or after a single "+" otherwise: (3,3) gives
\* "3+3", (-3,3) gives "-3+3", (3,-3) gives "3-3", (-3,-3) gives "-3-3".
ClaimedPosition(x, y) ==
    FmtInt(x) \o (IF y >= 0 THEN "+" ELSE "") \o FmtInt(y)

PositionCarriesOwnSigns ==
    /\ ClaimedPosition(3, 3) = "3+3"
    /\ ClaimedPosition(0 - 3, 3) = "-3+3"
    /\ ClaimedPosition(3, 0 - 3) = "3-3"
    /\ ClaimedPosition(0 - 3, 0 - 3) = "-3-3"
    /\ (probe.applied /\ probe.method_idx = 2) =>
           calls[1].args = <<"--output", probe.display.name, "--pos",
                             ClaimedPosition(probe.x_offset, probe.y_offset)>>

\* C17: with dx = dy = 0 the transform strategy prints both translation
\* entries with six decimals, "1,0,0.000000,0,1,0.000000,0,0,1", which is not
\* the text of the first attempt of the reset protocol.
ZeroShiftPrintsSixDecimals ==
    (probe.applied /\ probe.method_idx = 0 /\ probe.x_offset = 0 /\ probe.y_offset = 0) =>
        /\ Len(calls) = 1
        /\ calls[1].args = <<"--output", probe.display.name, "--transform",
                             "1,0,0.000000,0,1,0.000000,0,0,1">>
        /\ calls[1].args # ResetArgs(probe.display.name)[1]

\* a zero shift was applied through the transform strategy
ZeroShiftTransformed ==
    /\ probe.applied
    /\ probe.method_idx = 0
    /\ probe.x_offset = 0
    /\ probe.y_offset = 0
    /\ probe.display.width > 0
    /\ probe.display.height > 0
    /\ calls # <<>>

\* C17 as stated: with dx = dy = 0 the transform strategy emits exactly the
\* string the reset protocol uses, "1,0,0,0,1,0,0,0,1".
ZeroShiftIsResetText ==
    (probe.applied /\ probe.method_idx = 0 /\ probe.x_offset = 0 /\ probe.y_offset = 0) =>
        calls[1].args[4] = IdentityTransform

\* C13: a test shift, and the deferred reset it arms, leave the schedule as it
\* was: the timer handle, the armed shift timer, the pattern with its cursor
\* and the toggle are the same before and after each of the two steps.
TestLeavesScheduleAlone ==
    [][lastOp'.name \in {"test", "deferred_reset"} =>
           UNCHANGED << running_id, sources, shift_pattern, TOGGLE >>]_vars

\* the deferred reset of a test shift fired during a pattern run that is part
\* way round the ring, after an earlier run had flipped the toggle
DeferredResetFiredMidRun ==
    /\ lastOp.name = "deferred_reset"
    /\ IsSome(running_id)
    /\ sources # {}
    /\ IsSome(shift_pattern)
    /\ Unwrap(shift_pattern).current_index > 0
    /\ TOGGLE

\* C18: without the pattern, the n-th tick of a run applies (a,a) when n is odd
\* and (0,0) when n is even, a being the amount the run was started with,
\* whatever ticks earlier runs made.
ToggleBelongsToRun ==
    lastOp.name = "tick" =>
        \A s \in sources :
            (s.id = lastOp.src /\ ~s.use_pattern) =>
                LET off == IF run_ticks = 1 THEN s.shift_amount ELSE 0 IN
                calls = ApplyShift(s.method_idx, s.display, off, off, calls[1].result).calls

\* C19: with the pattern, the k-th tick of a run applies entry ((k - 1) mod 9)
\* of the ring built from the amount the run was started with, whatever runs
\* came before, so the first tick applies (0,0); stop leaves the cursor at 0.
PatternRunFollowsRing ==
    /\ lastOp.name = "tick" =>
           \A s \in sources :
               (s.id = lastOp.src /\ s.use_pattern) =>
                   LET off == ClockwiseRing(s.shift_amount)[((run_ticks + 8) % 9) + 1] IN
                   /\ calls = ApplyShift(s.method_idx, s.display, off[1], off[2],
                                         calls[1].result).calls
                   /\ IsSome(shift_pattern)
                   /\ Unwrap(shift_pattern).current_index = run_ticks
    /\ (lastOp.name = "stop" /\ IsSome(shift_pattern)) =>
           Unwrap(shift_pattern).current_index = 0

\* the first tick of a pattern run that follows an earlier run without pattern
FirstPatternTickOfLaterRun ==
    /\ lastOp.name = "tick"
    /\ TOGGLE
    /\ run_ticks = 1
    /\ \E s \in sources :
          /\ s.id = lastOp.src
          /\ s.use_pattern
          /\ s.shift_amount = MaxShift
          /\ calls = ApplyShift(s.method_idx, s.display, 0, 0, calls[1].result).calls

\* C20: a test shift with a display selected makes one strategy call; when the
\* call succeeds it arms exactly one deferred reset of that display, when it
\* fails it arms none; an armed reset stays armed until it fires, fires, and
\* then runs the reset protocol on its display and is gone.
TestArmsOneResetOnSuccess ==
    /\ [][/\ (lastOp'.name = "test" /\ IsSome(Selected)) =>
                /\ Len(calls') = 1
                /\ pending_resets' = IF calls'[1].result = "ok"
                                     THEN Append(pending_resets, Unwrap(Selected))
                                     ELSE pending_resets
          /\ lastOp'.name = "deferred_reset" =>
                /\ pending_resets # <<>>
                /\ pending_resets' = Tail(pending_resets)
                /\ IsSome(lastReset')
                /\ Unwrap(lastReset').display = Head(pending_resets).name
                /\ calls'[1].args = ResetArgs(Head(pending_resets).name)[1]
          /\ lastOp'.name \notin {"test", "deferred_reset"} =>
                UNCHANGED pending_resets]_vars
    /\ (pending_resets # <<>>) ~> (lastOp.name = "deferred_reset")

\* the one deferred reset of a successful test shift has fired on the display
\* that was shifted
TestResetFired ==
    /\ lastOp.name = "deferred_reset"
    /\ pending_resets = <<>>
    /\ IsSome(Selected)
    /\ lastReset = Some([display |-> Unwrap(Selected).name, ret |-> TRUE])
    /\ running_id = None

\* C20 as stated: every test shift with a display selected arms one deferred
\* reset of that display, whether the shift succeeded or failed.
TestAlwaysArmsReset ==
    [][(lastOp'.name = "test" /\ IsSome(Selected)) =>
           pending_resets' = Append(pending_resets, Unwrap(Selected))]_vars

\* the words of a report that the claims about the parser speak of
OutputName(line) == split_whitespace(line)[1]

ConnectedHeader(line) ==
    /\ IsHeaderLine(line)
    /\ Len(split_whitespace(line)) >= 2
    /\ split_whitespace(line)[2] = W_connected

\* <digits>x<digits>+<digits>+<digits>
WellFormedGeometry(tok) ==
    LET wh == split_once(tok, "x")
        hxy == IF IsSome(wh) THEN split_once(Unwrap(wh)[2], "+") ELSE None
        xy == IF IsSome(hxy) THEN split_once(Unwrap(hxy)[2], "+") ELSE None
    IN  /\ IsSome(wh) /\ IsSome(hxy) /\ IsSome(xy)
        /\ \A t \in {Unwrap(wh)[1], Unwrap(hxy)[1], Unwrap(xy)[1], Unwrap(xy)[2]} :
              t # <<>> /\ AllDigits(t)

GeometryTokens(line) ==
    {i \in 1..Len(split_whitespace(line)) : WellFormedGeometry(split_whitespace(line)[i])}

\* width and height of a token WxH...
TokenSize(tok) ==
    LET wh == Unwrap(split_once(tok, "x"))
        h == IF contains_char(wh[2], "+") THEN Unwrap(split_once(wh[2], "+"))[1] ELSE wh[2]
    IN  <<DecimalValue(wh[1]), DecimalValue(h)>>

HeaderSize(line) ==
    TokenSize(split_whitespace(line)[CHOOSE i \in GeometryTokens(line) :
                                         \A j \in GeometryTokens(line) : i <= j])

\* the entries of the parsed list made for the output called name
EntriesFor(name) == {k \in 1..Len(displays) : displays[k].name = name}

\* the indented lines that follow header line i, up to the next header
BlockOf(report, i) ==
    {k \in (i + 1)..Len(report) :
        \A j \in (i + 1)..k : ~IsHeaderLine(report[j])}

\* WxH as first word of an indented line
IsModeLine(line) ==
    LET parts == split_whitespace(line)
        wh == IF parts # <<>> THEN split_once(parts[1], "x") ELSE None
    IN  /\ ~IsHeaderLine(line)
        /\ IsSome(wh)
        /\ Unwrap(wh)[1] # <<>> /\ AllDigits(Unwrap(wh)[1])
        /\ Unwrap(wh)[2] # <<>> /\ AllDigits(Unwrap(wh)[2])

ActiveModeLines(report, i) ==
    {k \in BlockOf(report, i) : IsModeLine(report[k]) /\ contains_char(report[k], "*")}

\* C14: every connected header line with a well-formed geometry token WxH+X+Y
\* gets an entry, and the entry has the width W and height H of that line.
HeaderGeometryIsOwn ==
    (probe.parsed /\ probe.launched) =>
        \A i \in 1..Len(probe.report) :
            LET line == probe.report[i] IN
            (ConnectedHeader(line) /\ GeometryTokens(line) # {}) =>
                /\ EntriesFor(OutputName(line)) # {}
                /\ \A k \in EntriesFor(OutputName(line)) :
                      <<displays[k].width, displays[k].height>> = HeaderSize(line)

\* C15: a connected header line without geometry token whose block has a mode
\* line with "*" gets an entry with the width and height of the first such
\* mode line, whatever other marker that line carries.
FallbackTakesFirstActiveMode ==
    (probe.parsed /\ probe.launched) =>
        \A i \in 1..Len(probe.report) :
            LET line == probe.report[i]
                act == ActiveModeLines(probe.report, i)
            IN  (ConnectedHeader(line) /\ GeometryTokens(line) = {} /\ act # {}) =>
                    LET first == CHOOSE k \in act : \A j \in act : k <= j IN
                    /\ EntriesFor(OutputName(line)) # {}
                    /\ \A k \in EntriesFor(OutputName(line)) :
                          <<displays[k].width, displays[k].height>>
                              = TokenSize(split_whitespace(probe.report[first])[1])

\* C16: a connected header line without geometry token whose block has no mode
\* line with "*" gets no entry, whatever else the report holds.
UnresolvedDisplayIsDropped ==
    (probe.parsed /\ probe.launched) =>
        \A i \in 1..Len(probe.report) :
            LET line == probe.report[i] IN
            (/\ ConnectedHeader(line)
             /\ GeometryTokens(line) = {}
             /\ ActiveModeLines(probe.report, i) = {}) =>
                EntriesFor(OutputName(line)) = {}

\* C21: when the reset run by stop fails on all four attempts, the last status
\* stop emits is the report of that failure; and the last status of stop is
\* never "Auto-shift stopped and display reset." when the reset failed or no
\* reset was made.
StopReportsResetFailure ==
    (lastOp.name = "stop" /\ msgs # <<>>) =>
        /\ (IsSome(lastReset) /\ ~Unwrap(lastReset).ret) =>
               msgs[Len(msgs)] = ResetFailedText(Unwrap(lastReset).display)
        /\ (lastReset = None \/ ~Unwrap(lastReset).ret) =>
               msgs[Len(msgs)] # "Auto-shift stopped and display reset."

\* C22: the deferred reset of a test shift never runs the reset protocol on the
\* display that the armed shift timer of a running schedule is driving.
DeferredResetAvoidsDrivenDisplay ==
    (lastOp.name = "deferred_reset" /\ IsSome(lastReset) /\ IsSome(running_id)) =>
        \A s \in sources :
            s.id = Unwrap(running_id) =>
                /\ s.display.name # Unwrap(lastReset).display
                /\ \A i \in 1..Len(calls) : calls[i].args[2] # s.display.name

====
